---- MODULE Spec2Model ----
(***************************************************************************)
(* The Open-Loop Tracking & Nudge Dispatch Engine of Muze:                 *)
(*   scheduler_dispatcher.py  SchedulerDispatcher (dispatch cycle, sender) *)
(*   state_manager.py         StateManager (decay detector, event scanner) *)
(*   database.py              users, messages and pending_nudges tables    *)
(*   scheduler.py / app.py    the two entry points of the dispatch cycle   *)
(*                                                                         *)
(* Spec is the engine with its collaborators working, LiveSpec adds the    *)
(* sender's fairness, FaultSpec is one cycle at a time with collaborators  *)
(* failing, QuietSpec calls the Quiet-Hours Resolver directly.             *)
(*                                                                         *)
(* Time is counted in whole hours since an epoch that is a UTC midnight.   *)
(* A timezone is its UTC offset in hours.  A text is a record of its kind   *)
(* and the topic names that occur in it (what the ghost-loop check reads). *)
(***************************************************************************)
EXTENDS Integers, Sequences, FiniteSets, TLC

VARIABLES
    now,          \* datetime.utcnow(), in hours
    users,        \* users table: phone_number -> row
    messages,     \* messages table: phone_number -> rows, oldest first
    nudges,       \* pending_nudges table: row i has id i
    llm,          \* how the Text Generation Service answers in this behaviour
    disp,         \* the runs of process_dispatch_queue, one per entry point
    send,         \* the runs of send_approved_nudges, one per caller
    delivered,    \* history: messages the Delivery Service accepted
    probe         \* the last direct call of a resolver function and its result

vars == <<now, users, messages, nudges, llm, disp, send, delivered, probe>>

(***************************************************************************)
(* Bounds of the model.                                                    *)
(***************************************************************************)
MaxTime == 9
MaxNudges == 2

(***************************************************************************)
(* Program constants.                                                      *)
(***************************************************************************)
OnboardingComplete == 99
DaysAhead == 2
DaysThreshold == 7
GhostLimit == 3
TopN == 3

None == 0 - 100000          \* a NULL column / a missing dict key
Unparsable == None - 1      \* a timestamp string that does not parse
BadTz == None - 2           \* a timezone name pytz cannot resolve

Phones == {"u1", "u2"}
DispSlots == {"job", "cron"}
SendSlots == {"sender"}
\* the users whose settings the settings endpoint is called for
SettingsPhones == {"u1"}

Max(a, b) == IF a >= b THEN a ELSE b

RECURSIVE Concat(_)
Concat(ss) == IF ss = <<>> THEN <<>> ELSE Head(ss) \o Concat(Tail(ss))

(***************************************************************************)
(* Quiet hours.                                                            *)
(***************************************************************************)
\* astimezone(user_tz).hour
LocalHour(t, tz) == (t + tz) % 24

\* the membership test with the end hour counted as quiet
QuietAtEndInclusive(hour, quiet_start, quiet_end) ==
    IF quiet_start > quiet_end
    THEN hour >= quiet_start \/ hour <= quiet_end
    ELSE quiet_start <= hour /\ hour <= quiet_end

QuietAt(hour, quiet_start, quiet_end) ==
    IF quiet_start > quiet_end
    THEN hour >= quiet_start \/ hour < quiet_end
    ELSE quiet_start <= hour /\ hour < quiet_end

is_quiet_hours_at_time(user, hour) ==
    QuietAt(hour, user.quiet_hours_start, user.quiet_hours_end)

is_quiet_hours(user, t) ==
    IF user.timezone = BadTz
    THEN TRUE
    ELSE LET current_hour == LocalHour(t, user.timezone)
             quiet_start == user.quiet_hours_start
             quiet_end == user.quiet_hours_end
         IN  IF quiet_start > quiet_end
             THEN current_hour >= quiet_start \/ current_hour < quiet_end
             ELSE quiet_start <= current_hour /\ current_hour < quiet_end

(***************************************************************************)
(* Pacing gate.                                                            *)
(***************************************************************************)
\* the gate with a strict comparison
should_send_strictly_later(last_interaction_at, weight, t) ==
    IF last_interaction_at = None THEN TRUE
    ELSE (t - last_interaction_at) >
            (IF weight >= 5 THEN 4 ELSE IF weight >= 3 THEN 24 ELSE 48)

PacingThreshold(weight) ==
    IF weight >= 5 THEN 4 ELSE IF weight >= 3 THEN 24 ELSE 48

should_send_based_on_pacing(last_interaction_at, weight, t) ==
    IF last_interaction_at = None
    THEN TRUE
    ELSE (t - last_interaction_at) >= PacingThreshold(weight)

(***************************************************************************)
(* Persistence store reads.                                                *)
(***************************************************************************)
ActiveStatuses == {"pending", "approved"}

\* the existence check with the approved rows forgotten
check_existing_pending_only(phone, topic) ==
    \E i \in 1..Len(nudges) :
        /\ nudges[i].phone_number = phone
        /\ nudges[i].topic = topic
        /\ nudges[i].status = "pending"

check_existing_pending_nudge(phone, topic) ==
    \E i \in 1..Len(nudges) :
        /\ nudges[i].phone_number = phone
        /\ nudges[i].topic = topic
        /\ nudges[i].status \in ActiveStatuses

\* the ready filter with the scheduled-send time forgotten
ReadyWhateverTheTime(i) == nudges[i].status = "approved"

\* the filter of get_approved_nudges_ready_to_send on row i
Ready(i) ==
    /\ nudges[i].status = "approved"
    /\ nudges[i].scheduled_send_time <= now

RECURSIVE IdsFrom(_, _)
IdsFrom(i, n) ==
    IF i > n THEN <<>>
    ELSE (IF Ready(i) THEN <<i>> ELSE <<>>) \o IdsFrom(i + 1, n)

\* ids of the rows the query returns, in id order
get_approved_nudges_ready_to_send == IdsFrom(1, Len(nudges))

\* the phone numbers of get_users_for_dispatch, in a fixed table order
PhoneOrder == <<"u1", "u2">>

\* the query without its filter on the onboarding step
get_all_users ==
    Concat([i \in 1..Len(PhoneOrder) |->
              <<[phone_number |-> PhoneOrder[i]] @@ users[PhoneOrder[i]]>>])

\* the rows are the User objects as they were when the query ran
get_users_for_dispatch ==
    LET keep(p) == users[p].onboarding_step = OnboardingComplete
        row(p) == [phone_number |-> p] @@ users[p]
    IN  Concat([i \in 1..Len(PhoneOrder) |->
                  IF keep(PhoneOrder[i]) THEN <<row(PhoneOrder[i])>> ELSE <<>>])

\* the texts of the user's `limit` most recent messages
get_user_messages(phone, limit) ==
    LET ms == messages[phone]
        n  == Len(ms)
    IN  {ms[i].text : i \in Max(1, n - limit + 1)..n}

\* str.lower() on the spellings that occur in loops and messages
Lower(s) ==
    CASE s = "Visa"   -> "visa"
      [] s = "VISA"   -> "visa"
      [] s = "Thesis" -> "thesis"
      [] s = "MVP"    -> "mvp"
      [] OTHER        -> s

\* the keyword check comparing the spellings as they are
check_ghost_case_sensitive(phone, topic) ==
    \E text \in get_user_messages(phone, GhostLimit) : topic \in text.mentions

\* topic.lower() in msg.message_text.lower(); the mentions of a text are the
\* substrings of it that spell a topic, in the spelling of the text
check_ghost_loops(phone, topic) ==
    \E text \in get_user_messages(phone, GhostLimit) :
        \E part \in text.mentions : Lower(part) = Lower(topic)

(***************************************************************************)
(* Scanners (state_manager.py).  open_loops is the dict in insertion order *)
(* as a sequence of [topic, status, last_updated, next_event_date, weight].*)
(***************************************************************************)
\* timedelta.days: whole days, rounded towards minus infinity
Days(hours) == hours \div 24

Parsable(ts) == ts # None /\ ts # Unparsable

\* the decay detector asking for more than the threshold
detect_decaying_strictly_older(open_loops, days_threshold, t) ==
    LET hit(l) == /\ l.status = "active"
                  /\ Parsable(l.last_updated)
                  /\ (t - l.last_updated) \div 24 > days_threshold
    IN  Concat([i \in 1..Len(open_loops) |->
                  IF hit(open_loops[i]) THEN <<open_loops[i].topic>> ELSE <<>>])

\* the decay detector without its status test
detect_decaying_any_status(open_loops, days_threshold, t) ==
    LET hit(l) == /\ Parsable(l.last_updated)
                  /\ (t - l.last_updated) \div 24 >= days_threshold
    IN  Concat([i \in 1..Len(open_loops) |->
                  IF hit(open_loops[i]) THEN <<open_loops[i].topic>> ELSE <<>>])

\* the event scanner returning its hits in dict order
get_upcoming_events_unsorted(open_loops, days_ahead, t) ==
    LET days(l) == (l.next_event_date - t) \div 24
        hit(l) == /\ l.status = "active"
                  /\ Parsable(l.next_event_date)
                  /\ 0 <= days(l) /\ days(l) <= days_ahead
    IN  Concat([i \in 1..Len(open_loops) |->
                  IF hit(open_loops[i])
                  THEN <<[topic |-> open_loops[i].topic,
                          event_date |-> open_loops[i].next_event_date,
                          days_until |-> days(open_loops[i])]>>
                  ELSE <<>>])

get_upcoming_events(open_loops, days_ahead, t) ==
    LET hit(l) == /\ l.next_event_date # None
                  /\ l.status = "active"
                  /\ l.next_event_date # Unparsable
                  /\ 0 <= Days(l.next_event_date - t)
                  /\ Days(l.next_event_date - t) <= days_ahead
        entry(l) == [topic |-> l.topic, event_date |-> l.next_event_date,
                     days_until |-> Days(l.next_event_date - t)]
        upcoming == Concat([i \in 1..Len(open_loops) |->
                       IF hit(open_loops[i]) THEN <<entry(open_loops[i])>>
                       ELSE <<>>])
    IN  \* sorted(upcoming, key=days_until): stable
        Concat([k \in 1..(days_ahead + 1) |->
                  SelectSeq(upcoming, LAMBDA e : e.days_until = k - 1)])

detect_decaying_loops(open_loops, days_threshold, t) ==
    LET hit(l) == /\ l.status = "active"
                  /\ Parsable(l.last_updated)
                  /\ Days(t - l.last_updated) >= days_threshold
    IN  Concat([i \in 1..Len(open_loops) |->
                  IF hit(open_loops[i]) THEN <<open_loops[i].topic>> ELSE <<>>])

\* open_loops.get(topic, {})
LoopOf(open_loops, topic) ==
    LET idx == {i \in 1..Len(open_loops) : open_loops[i].topic = topic}
    IN  open_loops[CHOOSE i \in idx : TRUE]

\* loop_data.get('weight', dflt)
WeightOr(l, dflt) == IF l.weight = None THEN dflt ELSE l.weight

\* the text the Text Generation Service (or its fallback) returns
generate_check_in_question(topic) ==
    CASE llm = "fails" -> [kind |-> "fallback",  mentions |-> {topic}]
      [] llm = "names" -> [kind |-> "generated", mentions |-> {topic}]
      [] OTHER         -> [kind |-> "generated", mentions |-> {}]

\* the set of topics spelled in one of the texts
MentionsOf(questions) ==
    UNION {questions[i].mentions : i \in 1..Len(questions)}

\* batching that asks the service also for a single question
generate_batched_always_asks(questions) ==
    IF llm = "fails"
    THEN [message |-> [kind |-> "joined", mentions |-> MentionsOf(questions),
                       parts |-> questions],
          service_called |-> TRUE]
    ELSE [message |-> [kind |-> "batched", mentions |-> MentionsOf(questions)],
          service_called |-> TRUE]

\* one message for several questions: the single question itself, the text
\* of the Text Generation Service, or "\n\n".join(questions) when it fails
generate_batched_message(questions) ==
    IF Len(questions) = 1
    THEN [message |-> questions[1], service_called |-> FALSE]
    ELSE IF llm = "fails"
    THEN [message |-> [kind |-> "joined", mentions |-> MentionsOf(questions),
                       parts |-> questions],
          service_called |-> TRUE]
    ELSE [message |-> [kind |-> "batched", mentions |-> MentionsOf(questions)],
          service_called |-> TRUE]

(***************************************************************************)
(* Candidate generation, rules A, B and C of process_dispatch_queue.       *)
(***************************************************************************)
RuleA(phone, open_loops, t) ==
    LET upcoming == get_upcoming_events(open_loops, DaysAhead, t)
        cand(e) ==
            IF e.days_until = 0
            THEN [question |-> [kind |-> "today", mentions |-> {e.topic}],
                  weight |-> 5, topic |-> e.topic]
            ELSE IF e.days_until = 1
            THEN [question |-> [kind |-> "tomorrow", mentions |-> {e.topic}],
                  weight |-> 5, topic |-> e.topic]
            ELSE [question |-> generate_check_in_question(e.topic),
                  weight |-> WeightOr(LoopOf(open_loops, e.topic), 4),
                  topic |-> e.topic]
    IN  Concat([i \in 1..Len(upcoming) |->
                  IF check_existing_pending_nudge(phone, upcoming[i].topic)
                  THEN <<>> ELSE <<cand(upcoming[i])>>])

RuleB(phone, open_loops, t) ==
    LET decaying == detect_decaying_loops(open_loops, DaysThreshold, t)
        cand(topic) == [question |-> generate_check_in_question(topic),
                        weight |-> WeightOr(LoopOf(open_loops, topic), 3),
                        topic |-> topic]
    IN  Concat([i \in 1..Len(decaying) |->
                  IF check_existing_pending_nudge(phone, decaying[i])
                  THEN <<>> ELSE <<cand(decaying[i])>>])

\* rule C without its weight floor
RuleCAnyWeight(phone, open_loops, candidates, t) ==
    LET taken == {candidates[i].topic : i \in 1..Len(candidates)}
        weight(l) == WeightOr(l, 3)
        threshold(l) == IF weight(l) >= 5 THEN 48 ELSE 96
        hit(l) == /\ l.topic \notin taken
                  /\ ~check_existing_pending_nudge(phone, l.topic)
                  /\ Parsable(l.last_updated)
                  /\ (t - l.last_updated) >= threshold(l)
        cand(l) == [question |-> generate_check_in_question(l.topic),
                    weight |-> weight(l), topic |-> l.topic]
    IN  Concat([i \in 1..Len(open_loops) |->
                  IF hit(open_loops[i]) THEN <<cand(open_loops[i])>> ELSE <<>>])

RuleC(phone, open_loops, candidates, t) ==
    LET taken == {candidates[i].topic : i \in 1..Len(candidates)}
        weight(l) == WeightOr(l, 3)
        threshold(l) == IF weight(l) >= 5 THEN 48 ELSE 96
        hit(l) == /\ l.topic \notin taken
                  /\ ~check_existing_pending_nudge(phone, l.topic)
                  /\ weight(l) >= 4
                  /\ Parsable(l.last_updated)
                  /\ (t - l.last_updated) >= threshold(l)
        cand(l) == [question |-> generate_check_in_question(l.topic),
                    weight |-> weight(l), topic |-> l.topic]
    IN  Concat([i \in 1..Len(open_loops) |->
                  IF hit(open_loops[i]) THEN <<cand(open_loops[i])>> ELSE <<>>])

Candidates(phone, open_loops, t) ==
    LET ab == RuleA(phone, open_loops, t) \o RuleB(phone, open_loops, t)
    IN  ab \o RuleC(phone, open_loops, ab, t)

\* an ascending sort read backwards: highest weight first, ties reversed
SortAscendingReversed(candidates) ==
    LET tier(w) == SelectSeq(candidates, LAMBDA c : c.weight = w)
        backwards(q) == [i \in 1..Len(q) |-> q[Len(q) + 1 - i]]
    IN  Concat([k \in 1..5 |-> backwards(tier(6 - k))])

\* candidates.sort(key=weight, reverse=True): stable, highest weight first
SortByWeight(candidates) ==
    Concat([k \in 1..5 |->
              SelectSeq(candidates, LAMBDA c : c.weight = 6 - k)])

\* the ghost-loop filter letting every candidate through
GhostFilterKeepsAll(phone, candidates) == candidates

GhostFilter(phone, candidates) ==
    SelectSeq(candidates, LAMBDA c : ~check_ghost_loops(phone, c.topic))

\* the slice left out
KeepAllCandidates(valid) == valid

\* valid_candidates[:3]
TopCandidates(valid) == SubSeq(valid, 1, IF Len(valid) < TopN THEN Len(valid) ELSE TopN)

\* one offset for every weight
HoursToAddFlat(weight) == 24

HoursToAdd(weight) ==
    IF weight >= 5 THEN 4 ELSE IF weight >= 3 THEN 24 ELSE 48

\* the send time without the quiet-hours adjustment
ScheduledTimeUnadjusted(user, last_interaction_at, weight, t) ==
    (IF last_interaction_at # None THEN last_interaction_at ELSE t)
       + (IF weight >= 5 THEN 4 ELSE IF weight >= 3 THEN 24 ELSE 48)

\* scheduled_send_time of the batch: last interaction plus the offset, moved
\* to the end of quiet hours when it falls inside them
ScheduledTime(user, last_interaction_at, weight, t) ==
    LET last_interaction == IF last_interaction_at # None
                            THEN last_interaction_at ELSE t
        scheduled == last_interaction + HoursToAdd(weight)
        local == scheduled + user.timezone
        atEnd == (local \div 24) * 24 + user.quiet_hours_end
        moved == IF atEnd < t + user.timezone THEN atEnd + 24 ELSE atEnd
    IN  IF is_quiet_hours_at_time(user, local % 24)
        THEN moved - user.timezone
        ELSE scheduled

\* the loop body with the pacing gate left out
UserBatchWithoutPacing(row, t) ==
    LET phone == row.phone_number
        user == row
        candidates == SortByWeight(Candidates(phone, user.open_loops, t))
        valid == GhostFilter(phone, candidates)
        top == TopCandidates(valid)
        skip(why) == [outcome |-> why, top |-> <<>>, scheduled_time |-> None]
    IN  IF user.open_loops = <<>> THEN skip("no_loops")
        ELSE IF candidates = <<>> THEN skip("no_candidates")
        ELSE IF valid = <<>> THEN skip("ghost")
        ELSE IF user.timezone = BadTz THEN skip("error")
        ELSE [outcome |-> "create", top |-> top,
              scheduled_time |-> ScheduledTime(user, row.last_interaction_at,
                                               top[1].weight, t)]

\* what one pass of the per-user loop body decides for a user row that was
\* read at the start of the run
UserBatch(row, t) ==
    LET phone == row.phone_number
        user == row
        candidates == SortByWeight(Candidates(phone, user.open_loops, t))
        valid == GhostFilter(phone, candidates)
        top == TopCandidates(valid)
        skip(why) == [outcome |-> why, top |-> <<>>, scheduled_time |-> None]
    IN  IF user.open_loops = <<>> THEN skip("no_loops")
        ELSE IF candidates = <<>> THEN skip("no_candidates")
        ELSE IF ~should_send_based_on_pacing(row.last_interaction_at,
                                             candidates[1].weight, t)
             THEN skip("pacing")
        ELSE IF valid = <<>> THEN skip("ghost")
        ELSE IF user.timezone = BadTz THEN skip("error")
        ELSE [outcome |-> "create", top |-> top,
              scheduled_time |-> ScheduledTime(user, row.last_interaction_at,
                                               top[1].weight, t)]

(***************************************************************************)
(* Initial states: the tables before the first cycle.                      *)
(***************************************************************************)
Loop(topic, status, last_updated, next_event_date, weight) ==
    [topic |-> topic, status |-> status, last_updated |-> last_updated,
     next_event_date |-> next_event_date, weight |-> weight]

\* an active loop that is stale and has its event on the next calendar day
Pitch == Loop("pitch", "active", 0 - 200, 48, 2)
\* a high-urgency project without an event, last touched three days ago
Mvp == Loop("mvp", "active", 0 - 52, None, 5)
\* a medium-high project, last touched five days ago
Gym == Loop("gym", "active", 0 - 120, None, 4)

\* events on the next three dates, stale loops and pacing-ready loops
Launch == Loop("launch", "active", 0 - 20, 24, 2)
Demo   == Loop("demo", "active", 0 - 20, 48, 4)
Trip   == Loop("trip", "active", 0 - 20, 72, 2)
Thesis == Loop("thesis", "active", 0 - 200, None, 5)
Garden == Loop("garden", "active", 0 - 200, None, 2)

User(tz, qs, qe, step, last, loops) ==
    [timezone |-> tz, quiet_hours_start |-> qs, quiet_hours_end |-> qe,
     onboarding_step |-> step, last_interaction_at |-> last,
     open_loops |-> loops]

NotOnboarded == User(0, 22, 9, 0, None, <<>>)

Single(last, loops) ==
    [u1 |-> User(0, 22, 9, OnboardingComplete, last, loops),
     u2 |-> NotOnboarded]

\* one onboarded user; the last interaction is missing, 6 hours or 18 hours
\* before the first cycle
OneUser ==
    { Single(last, <<Pitch>>) : last \in {None, 2, 0 - 10} }
      \cup { Single(last, <<Mvp, Gym>>) : last \in {2, 0 - 10} }
      \cup { Single(0 - 10, <<Mvp>>) }

\* two onboarded users, the second one without any open loop so far
TwoUsers ==
    { [u1 |-> User(0, 22, 9, OnboardingComplete, 0 - 10, <<Mvp>>),
       u2 |-> User(0, 22, 9, OnboardingComplete, None, <<>>)] }

InitUsers == OneUser \cup TwoUsers

\* the Text Generation Service names the topic in its question, or not
InitLlm(u) == IF u = Single(0 - 10, <<Mvp>>) THEN {"names", "omits"} ELSE {"names"}

\* outcome is what the run logged for the user it handled last
IdleDisp == [pc |-> "idle", queue |-> <<>>, plan |-> <<>>,
             scheduled_time |-> None, created |-> 0, skipped |-> 0,
             base |-> 0, outcome |-> "none"]

IdleSend == [pc |-> "idle", fetched |-> <<>>, success |-> "none",
             sent |-> 0, failed |-> 0]

\* no resolver function has been called directly
NoProbe == [fn |-> "none", hour |-> 0, weight |-> 0, quiet |-> FALSE, time |-> 0,
            allowed |-> FALSE, out |-> <<>>]

Init ==
    /\ now = 8
    /\ users \in InitUsers
    /\ messages = [p \in Phones |-> <<>>]
    /\ nudges = <<>>
    /\ llm \in InitLlm(users)
    /\ disp = [d \in DispSlots |-> IdleDisp]
    /\ send = [s \in SendSlots |-> IdleSend]
    /\ delivered = {}
    /\ probe = NoProbe

(***************************************************************************)
(* Persistence store writes.                                               *)
(***************************************************************************)
create_pending_nudge(phone, topic, weight, message_text, scheduled, by) ==
    [phone_number |-> phone, topic |-> topic, weight |-> weight,
     message_text |-> message_text, scheduled_send_time |-> scheduled,
     status |-> "pending", sent_at |-> None, by |-> by]

store_message(phone, direction, text) ==
    [messages EXCEPT ![phone] = Append(@, [direction |-> direction, text |-> text])]

update_user_interaction(phone) ==
    [users EXCEPT ![phone].last_interaction_at = now]

\* the status update with the sent timestamp forgotten
MarkSentWithoutTimestamp(id) ==
    [nudges EXCEPT ![id].status = "sent"]

\* update_pending_nudge(id, status="sent", sent_at=utcnow())
MarkSent(id) ==
    [nudges EXCEPT ![id].status = "sent", ![id].sent_at = now]

(***************************************************************************)
(* process_dispatch_queue: one run per entry point (the hourly job of      *)
(* scheduler.py, the cron endpoint of app.py).  A run reads the user list, *)
(* then for each user builds the batch and, in a later step, inserts it.   *)
(***************************************************************************)
DispatchStart(d) ==
    /\ disp[d].pc = "idle"
    /\ disp' = [disp EXCEPT ![d] =
                  [pc |-> "users", queue |-> get_users_for_dispatch,
                   plan |-> <<>>, scheduled_time |-> None,
                   created |-> 0, skipped |-> 0,
                   base |-> Len(nudges), outcome |-> "none"]]
    /\ UNCHANGED <<now, users, messages, nudges, llm, send, delivered, probe>>

DispatchUser(d) ==
    /\ disp[d].pc = "users"
    /\ disp[d].queue # <<>>
    /\ LET b == UserBatch(Head(disp[d].queue), now)
       IN  disp' = [disp EXCEPT ![d] =
                IF b.outcome = "create"
                THEN [@ EXCEPT !.pc = "create", !.plan = b.top,
                               !.scheduled_time = b.scheduled_time,
                               !.outcome = b.outcome]
                ELSE [@ EXCEPT !.skipped = @ + 1, !.queue = Tail(@),
                               !.outcome = b.outcome]]
    /\ UNCHANGED <<now, users, messages, nudges, llm, send, delivered, probe>>

\* an exception in one user's processing that ends the whole run
DispatchUserRaisesAborts(d) ==
    /\ disp[d].pc = "users"
    /\ disp[d].queue # <<>>
    /\ disp' = [disp EXCEPT ![d] =
                  [@ EXCEPT !.skipped = @ + 1, !.queue = <<>>,
                            !.outcome = "error"]]
    /\ UNCHANGED <<now, users, messages, nudges, llm, send, delivered, probe>>

\* a Persistence Store read of the loop body raised (get_user_corpus,
\* check_existing_pending_nudge, get_user_messages): the outer except counts
\* the user as skipped and the loop goes on
DispatchUserRaises(d) ==
    /\ disp[d].pc = "users"
    /\ disp[d].queue # <<>>
    /\ disp' = [disp EXCEPT ![d] =
                  [@ EXCEPT !.skipped = @ + 1, !.queue = Tail(@),
                            !.outcome = "error"]]
    /\ UNCHANGED <<now, users, messages, nudges, llm, send, delivered, probe>>

\* the insert loop also refreshing the user's last interaction
DispatchCreateTouchesUser(d) ==
    /\ disp[d].pc = "create"
    /\ nudges = <<>> \/ Len(nudges) + Len(disp[d].plan) <= MaxNudges
    /\ LET r == disp[d]
           phone == Head(r.queue).phone_number
           rows == [i \in 1..Len(r.plan) |->
                      create_pending_nudge(phone, r.plan[i].topic,
                          r.plan[i].weight, r.plan[i].question,
                          r.scheduled_time, d)]
       IN  /\ nudges' = nudges \o rows
           /\ users' = update_user_interaction(phone)
           /\ disp' = [disp EXCEPT ![d] =
                         [@ EXCEPT !.pc = "users", !.plan = <<>>,
                                   !.scheduled_time = None,
                                   !.created = @ + Len(r.plan),
                                   !.queue = Tail(@)]]
    /\ UNCHANGED <<now, messages, llm, send, delivered, probe>>

DispatchCreate(d) ==
    /\ disp[d].pc = "create"
    /\ nudges = <<>> \/ Len(nudges) + Len(disp[d].plan) <= MaxNudges
    /\ LET r == disp[d]
           phone == Head(r.queue).phone_number
           rows == [i \in 1..Len(r.plan) |->
                      create_pending_nudge(phone, r.plan[i].topic,
                          r.plan[i].weight, r.plan[i].question,
                          r.scheduled_time, d)]
       IN  /\ nudges' = nudges \o rows
           /\ disp' = [disp EXCEPT ![d] =
                         [@ EXCEPT !.pc = "users", !.plan = <<>>,
                                   !.scheduled_time = None,
                                   !.created = @ + Len(r.plan),
                                   !.queue = Tail(@)]]
    /\ UNCHANGED <<now, users, messages, llm, send, delivered, probe>>

\* the same loop when create_pending_nudge raised for some of the candidates:
\* the inner except logs the failure and goes on with the next candidate
DispatchCreateRaises(d) ==
    /\ disp[d].pc = "create"
    /\ nudges = <<>> \/ Len(nudges) + Len(disp[d].plan) <= MaxNudges
    /\ LET r == disp[d]
           phone == Head(r.queue).phone_number
           row(i) == create_pending_nudge(phone, r.plan[i].topic,
                          r.plan[i].weight, r.plan[i].question,
                          r.scheduled_time, d)
       IN  \* ok: the candidates whose write did not raise
           \E ok \in (SUBSET (1..Len(r.plan))) \ {1..Len(r.plan)} :
              LET rows == Concat([i \in 1..Len(r.plan) |->
                                    IF i \in ok THEN <<row(i)>> ELSE <<>>])
              IN  /\ nudges' = nudges \o rows
                  /\ disp' = [disp EXCEPT ![d] =
                                [@ EXCEPT !.pc = "users", !.plan = <<>>,
                                          !.scheduled_time = None,
                                          !.created = @ + Len(rows),
                                          !.queue = Tail(@)]]
    /\ UNCHANGED <<now, users, messages, llm, send, delivered, probe>>

DispatchFinish(d) ==
    /\ disp[d].pc = "users"
    /\ disp[d].queue = <<>>
    /\ disp' = [disp EXCEPT ![d] = IdleDisp]
    /\ UNCHANGED <<now, users, messages, nudges, llm, send, delivered, probe>>

(***************************************************************************)
(* send_approved_nudges: fetch the ready rows, then one step per row.      *)
(***************************************************************************)
SendStart(s) ==
    /\ send[s].pc = "idle"
    /\ send' = [send EXCEPT ![s] =
                  [pc |-> "send", fetched |-> get_approved_nudges_ready_to_send,
                   success |-> "none", sent |-> 0, failed |-> 0]]
    /\ UNCHANGED <<now, users, messages, nudges, llm, disp, delivered, probe>>

\* send_whatsapp_message returned True
SendOk(s) ==
    /\ send[s].pc = "send"
    /\ send[s].fetched # <<>>
    /\ LET id == Head(send[s].fetched)
           n == nudges[id]
       IN  /\ delivered' = delivered \cup
                  {[id |-> id, phone_number |-> n.phone_number, at |-> now]}
           /\ messages' = store_message(n.phone_number, "outgoing", n.message_text)
           /\ users' = update_user_interaction(n.phone_number)
           /\ nudges' = MarkSent(id)
           /\ send' = [send EXCEPT ![s] =
                         [@ EXCEPT !.fetched = Tail(@), !.success = "true",
                                   !.sent = @ + 1]]
    /\ UNCHANGED <<now, llm, disp, probe>>

\* send_whatsapp_message returned True and one of the three writes after it
\* raised: the writes before it are committed, the ones from it on are not,
\* and the except clause counts the nudge as failed.  The fault strikes a
\* nudge at its first delivery only, which keeps the message table finite.
SendOkThenRaises(s) ==
    /\ send[s].pc = "send"
    /\ send[s].fetched # <<>>
    /\ \A x \in delivered : x.id # Head(send[s].fetched)
    /\ LET id == Head(send[s].fetched)
           n == nudges[id]
       IN  /\ delivered' = delivered \cup
                  {[id |-> id, phone_number |-> n.phone_number, at |-> now]}
           /\ \E raised \in {"store_message", "update_user_interaction",
                              "update_pending_nudge"} :
                 /\ messages' = IF raised = "store_message" THEN messages
                                ELSE store_message(n.phone_number, "outgoing",
                                                   n.message_text)
                 /\ users' = IF raised = "update_pending_nudge"
                             THEN update_user_interaction(n.phone_number)
                             ELSE users
           /\ send' = [send EXCEPT ![s] =
                         [@ EXCEPT !.fetched = Tail(@), !.success = "true",
                                   !.failed = @ + 1]]
    /\ UNCHANGED <<now, nudges, llm, disp, probe>>

\* a failed delivery that still refreshes the user's last interaction
SendFailedTouchesUser(s) ==
    /\ send[s].pc = "send"
    /\ send[s].fetched # <<>>
    /\ users' = update_user_interaction(nudges[Head(send[s].fetched)].phone_number)
    /\ send' = [send EXCEPT ![s] =
                  [@ EXCEPT !.fetched = Tail(@), !.success = "false",
                            !.failed = @ + 1]]
    /\ UNCHANGED <<now, messages, nudges, llm, disp, delivered, probe>>

\* a failed delivery that gives the nudge up instead of leaving it approved
SendFailedGivesUp(s) ==
    /\ send[s].pc = "send"
    /\ send[s].fetched # <<>>
    /\ nudges' = [nudges EXCEPT ![Head(send[s].fetched)].status = "failed"]
    /\ send' = [send EXCEPT ![s] =
                  [@ EXCEPT !.fetched = Tail(@), !.success = "false",
                            !.failed = @ + 1]]
    /\ UNCHANGED <<now, users, messages, llm, disp, delivered, probe>>

\* send_whatsapp_message caught the Delivery Service's error and returned False
SendFailed(s) ==
    /\ send[s].pc = "send"
    /\ send[s].fetched # <<>>
    /\ send' = [send EXCEPT ![s] =
                  [@ EXCEPT !.fetched = Tail(@), !.success = "false",
                            !.failed = @ + 1]]
    /\ UNCHANGED <<now, users, messages, nudges, llm, disp, delivered, probe>>

SendFinish(s) ==
    /\ send[s].pc = "send"
    /\ send[s].fetched = <<>>
    /\ send' = [send EXCEPT ![s] = IdleSend]
    /\ UNCHANGED <<now, users, messages, nudges, llm, disp, delivered, probe>>

(***************************************************************************)
(* The environment: the approval queue's reviewer and the clock.           *)
(***************************************************************************)
Approve(i) ==
    /\ nudges[i].status = "pending"
    /\ nudges' = [nudges EXCEPT ![i].status = "approved"]
    /\ UNCHANGED <<now, users, messages, llm, disp, send, delivered, probe>>

Skip(i) ==
    /\ nudges[i].status \in ActiveStatuses
    /\ nudges' = [nudges EXCEPT ![i].status = "skipped"]
    /\ UNCHANGED <<now, users, messages, llm, disp, send, delivered, probe>>

\* PUT /api/users/<phone_number>/settings stores whatever timezone name it
\* is given; here a name pytz cannot resolve
update_user_settings(p) ==
    /\ users[p].timezone # BadTz
    /\ users' = [users EXCEPT ![p].timezone = BadTz]
    /\ UNCHANGED <<now, messages, nudges, llm, disp, send, delivered, probe>>

\* the last step of onboarding: the step-3 handler has stored the user's
\* open loops and now sets the step to 99
update_user_onboarding_step(p) ==
    /\ users[p].onboarding_step # OnboardingComplete
    /\ users[p].open_loops # <<>>
    /\ users' = [users EXCEPT ![p].onboarding_step = OnboardingComplete]
    /\ UNCHANGED <<now, messages, nudges, llm, disp, send, delivered, probe>>

Tick ==
    /\ now < MaxTime
    /\ now' = now + 1
    /\ UNCHANGED <<users, messages, nudges, llm, disp, send, delivered, probe>>

Next ==
    \/ \E d \in DispSlots : DispatchStart(d)
    \/ \E d \in DispSlots : DispatchUser(d)
    \/ \E d \in DispSlots : DispatchCreate(d)
    \/ \E d \in DispSlots : DispatchFinish(d)
    \/ \E s \in SendSlots : SendStart(s)
    \/ \E s \in SendSlots : SendOk(s)
    \/ \E s \in SendSlots : SendFailed(s)
    \/ \E s \in SendSlots : SendFinish(s)
    \/ \E i \in 1..Len(nudges) : Approve(i)
    \/ \E i \in 1..Len(nudges) : Skip(i)
    \/ Tick

Spec == Init /\ [][Next]_vars

(***************************************************************************)
(* The engine with its collaborators failing: Persistence Store reads and  *)
(* writes that raise, and a stored timezone name that cannot be resolved.  *)
(***************************************************************************)
\* two onboarded users with a due loop each, or one user with two due loops
FaultUsers ==
    { [u1 |-> User(0, 22, 9, OnboardingComplete, 0 - 10, <<Mvp>>),
       u2 |-> User(0, 22, 9, OnboardingComplete, 0 - 20, <<Gym>>)],
      Single(0 - 10, <<Mvp, Gym>>) }

\* a loop that was resolved: weight 5, stale, with an event on the next day
Done == Loop("done", "resolved", 0 - 200, 48, 5)
\* a weight-5 loop whose event is tomorrow (local midnight), stale
Investor == Loop("investor", "active", 0 - 200, 24, 5)

\* a high-urgency loop whose name is capitalised
Visa == Loop("Visa", "active", 0 - 52, None, 5)

\* five loops that are all due: an event, two stale loops and two
\* pacing-ready ones, listed lowest weight first
Busy == Single(0 - 32, <<Garden, Gym, Mvp, Thesis, Launch>>)

\* u2 answered the last onboarding question five days ago: the loops were
\* stored, the step is still 3
Onboarding ==
    [u1 |-> User(0, 22, 9, OnboardingComplete, 0 - 10, <<Mvp>>),
     u2 |-> User(0, 22, 9, 3, 0 - 120, <<Gym>>)]

\* u1 talked 2 hours ago (pacing blocks), has only a resolved loop, is the
\* user of the "Investor Pitch" scenario (UTC+2, last interaction 10 hours
\* ago), has a due loop and a message history, or has five due loops
ScenarioUsers ==
    { Single(6, <<Pitch>>),
      Single(0 - 10, <<Done>>),
      [u1 |-> User(2, 22, 9, OnboardingComplete, 0 - 2, <<Investor>>),
       u2 |-> NotOnboarded],
      Single(0 - 30, <<Mvp>>),
      Single(0 - 31, <<Mvp>>),
      Busy,
      Single(0 - 33, <<Visa>>),
      Single(0 - 12, <<Mvp, Gym>>),
      Onboarding }

Said(topics) == [direction |-> "incoming",
                 text |-> [kind |-> "user", mentions |-> topics]]

\* an earlier message of the assistant
Sent(topics) == [direction |-> "outgoing",
                 text |-> [kind |-> "generated", mentions |-> topics]]

\* the message history before the first cycle: for the user of
\* Single(-30, ..) the topic is in the 3 most recent messages, for the user
\* of Single(-31, ..) only in the 4th most recent one; the user with five
\* loops has just talked about one of them, and the user of the capitalised
\* loop was asked about it, in lower case, three messages ago; the user who
\* talked 12 hours ago talked about the heavier of two loops
InitMessages(u) ==
    [p \in Phones |->
        IF p # "u1" THEN <<>>
        ELSE IF u = Single(0 - 30, <<Mvp>>)
             THEN <<Said({}), Said({"mvp"}), Said({}), Said({})>>
        ELSE IF u = Single(0 - 31, <<Mvp>>)
             THEN <<Said({"mvp"}), Said({}), Said({}), Said({})>>
        ELSE IF u = Busy
             THEN <<Said({"garden"}), Said({}), Said({}), Said({"Thesis"})>>
        ELSE IF u = Single(0 - 33, <<Visa>>)
             THEN <<Sent({"visa"}), Said({}), Said({})>>
        ELSE IF u = Single(0 - 12, <<Mvp, Gym>>)
             THEN <<Said({"mvp"})>>
        ELSE <<>>]

FaultInit ==
    /\ now = 8
    /\ users \in FaultUsers \cup ScenarioUsers
    /\ messages = InitMessages(users)
    /\ nudges = <<>>
    /\ llm = "names"
    /\ disp = [d \in DispSlots |-> IdleDisp]
    /\ send = [s \in SendSlots |-> IdleSend]
    /\ delivered = {}
    /\ probe = NoProbe

\* one entry point at a time: the overlap of two runs is Spec's subject
FaultSlots == {"job"}

FaultNext ==
    \/ \E d \in FaultSlots : DispatchStart(d)
    \/ \E d \in FaultSlots : DispatchUser(d)
    \/ \E d \in FaultSlots : DispatchUserRaises(d)
    \/ \E d \in FaultSlots : DispatchCreate(d)
    \/ \E d \in FaultSlots : DispatchCreateRaises(d)
    \/ \E d \in FaultSlots : DispatchFinish(d)
    \/ \E s \in SendSlots : SendStart(s)
    \/ \E s \in SendSlots : SendOk(s)
    \/ \E s \in SendSlots : SendFailed(s)
    \/ \E s \in SendSlots : SendFinish(s)
    \/ \E i \in 1..Len(nudges) : Approve(i)
    \/ \E i \in 1..Len(nudges) : Skip(i)
    \/ \E p \in SettingsPhones : update_user_settings(p)
    \/ \E p \in Phones : update_user_onboarding_step(p)
    \/ Tick

FaultSpec == FaultInit /\ [][FaultNext]_vars

(***************************************************************************)
(* The sender with a Persistence Store that may raise after a delivery:    *)
(* two nudges of an earlier cycle wait in the table, one approved and due, *)
(* one pending; the reviewer approves and skips, the clock advances.       *)
(***************************************************************************)
WaitingNudges ==
    <<[create_pending_nudge("u1", "mvp", 5,
                            [kind |-> "generated", mentions |-> {"mvp"}],
                            0 - 6, "job") EXCEPT !.status = "approved"],
      create_pending_nudge("u1", "gym", 4,
                           [kind |-> "generated", mentions |-> {"gym"}],
                           0 - 6, "job")>>

SendFaultInit ==
    /\ now = 8
    /\ users = Single(0 - 10, <<Mvp, Gym>>)
    /\ messages = [p \in Phones |-> <<>>]
    /\ nudges = WaitingNudges
    /\ llm = "names"
    /\ disp = [d \in DispSlots |-> IdleDisp]
    /\ send = [s \in SendSlots |-> IdleSend]
    /\ delivered = {}
    /\ probe = NoProbe

SendFaultNext ==
    \/ \E s \in SendSlots : SendStart(s)
    \/ \E s \in SendSlots : SendOk(s)
    \/ \E s \in SendSlots : SendOkThenRaises(s)
    \/ \E s \in SendSlots : SendFailed(s)
    \/ \E s \in SendSlots : SendFinish(s)
    \/ \E i \in 1..Len(nudges) : Approve(i)
    \/ \E i \in 1..Len(nudges) : Skip(i)
    \/ Tick

SendFaultSpec == SendFaultInit /\ [][SendFaultNext]_vars

(***************************************************************************)
(* The Quiet-Hours Resolver on its own: its functions called directly for  *)
(* a user at every hour of a day, over a range of zones, windows and last   *)
(* interactions.                                                           *)
(***************************************************************************)
ProbeTimes == 0..23
ProbeZones == {0, 2, 0 - 5}
ProbeHours == {0, 1, 9, 12, 22, 23}
ProbeLast  == {None, 0 - 2, 0 - 14, 0 - 26, 0 - 50}
ProbeWeights == {1, 3, 5}
PacingWeights == 0..6

\* every window over the hours 0..23 and a last interaction at every hour
\* of the day before, for a user in UTC at 08:00
AllHours == 0..23
WindowLast == {0 - k : k \in 1..24}

QuietInit ==
    /\ \/ /\ now \in ProbeTimes
          /\ \E tz \in ProbeZones, qs \in ProbeHours, qe \in ProbeHours,
                last \in ProbeLast :
                users = [u1 |-> User(tz, qs, qe, OnboardingComplete, last, <<Mvp>>),
                         u2 |-> NotOnboarded]
       \/ /\ now = 8
          /\ \E qs \in AllHours, qe \in AllHours, last \in WindowLast :
                users = [u1 |-> User(0, qs, qe, OnboardingComplete, last, <<Mvp>>),
                         u2 |-> NotOnboarded]
    /\ messages = [p \in Phones |-> <<>>]
    /\ nudges = <<>>
    /\ llm = "names"
    /\ disp = [d \in DispSlots |-> IdleDisp]
    /\ send = [s \in SendSlots |-> IdleSend]
    /\ delivered = {}
    /\ probe = NoProbe

\* is_quiet_hours(user), called now
CallIsQuietHours(p) ==
    /\ probe' = [fn |-> "is_quiet_hours",
                 hour |-> LocalHour(now, users[p].timezone), weight |-> 0,
                 quiet |-> is_quiet_hours(users[p], now), time |-> now,
                 allowed |-> FALSE, out |-> <<>>]
    /\ UNCHANGED <<now, users, messages, nudges, llm, disp, send, delivered>>

\* is_quiet_hours_at_time(user, check_time) for a check_time whose local hour
\* is the local hour of now
CallIsQuietHoursAtTime(p) ==
    /\ probe' = [fn |-> "is_quiet_hours_at_time",
                 hour |-> LocalHour(now, users[p].timezone), weight |-> 0,
                 quiet |-> is_quiet_hours_at_time(users[p],
                               LocalHour(now, users[p].timezone)),
                 time |-> now, allowed |-> FALSE, out |-> <<>>]
    /\ UNCHANGED <<now, users, messages, nudges, llm, disp, send, delivered>>

\* the scheduled-send time of a batch whose top candidate has weight w;
\* hour and quiet describe the time before the quiet-hours adjustment
CallScheduledTime(p, w) ==
    LET user == users[p]
        last_interaction == IF user.last_interaction_at # None
                            THEN user.last_interaction_at ELSE now
        scheduled == last_interaction + HoursToAdd(w)
    IN  /\ probe' = [fn |-> "scheduled_time",
                     hour |-> LocalHour(scheduled, user.timezone), weight |-> w,
                     quiet |-> is_quiet_hours_at_time(user,
                                   LocalHour(scheduled, user.timezone)),
                     time |-> ScheduledTime(user, user.last_interaction_at, w, now),
                     allowed |-> FALSE, out |-> <<>>]
        /\ UNCHANGED <<now, users, messages, nudges, llm, disp, send, delivered>>

\* should_send_based_on_pacing(user, w), called now
CallShouldSend(p, w) ==
    /\ probe' = [fn |-> "should_send_based_on_pacing",
                 hour |-> LocalHour(now, users[p].timezone), weight |-> w,
                 quiet |-> FALSE, time |-> now,
                 allowed |-> should_send_based_on_pacing(
                                 users[p].last_interaction_at, w, now),
                 out |-> <<>>]
    /\ UNCHANGED <<now, users, messages, nudges, llm, disp, send, delivered>>

QuietNext ==
    \/ \E p \in SettingsPhones : CallIsQuietHours(p)
    \/ \E p \in SettingsPhones : CallIsQuietHoursAtTime(p)
    \/ \E p \in SettingsPhones, w \in ProbeWeights : CallScheduledTime(p, w)
    \/ \E p \in SettingsPhones, w \in PacingWeights : CallShouldSend(p, w)

QuietSpec == QuietInit /\ [][QuietNext]_vars

(***************************************************************************)
(* The scanners and the candidate rules called directly on loop maps: one  *)
(* loop of every status, timestamp, event date and weight, and maps of two *)
(* to four loops in every insertion order.  Event dates are calendar dates *)
(* ("2025-01-25"), which fromisoformat reads as midnight.                  *)
(***************************************************************************)
ScanTimes == {0, 8, 23}
\* the status key is absent: data.get('status') is None
NoStatus == "null"
ScanStatuses == {"active", "decaying", "resolved", "paused", NoStatus}
ScanUpdated == {None, Unparsable, 0 - 200, 0 - 168, 0 - 167, 0 - 20}
ScanEvents == {None, Unparsable, 0 - 24, 0, 24, 48, 72, 96}
ScanWeights == {None, 2, 3, 4, 5}

OneLoopMaps ==
    { <<Loop("mvp", st, lu, ev, w)>> :
        st \in ScanStatuses, lu \in ScanUpdated, ev \in ScanEvents,
        w \in ScanWeights }

LoopPool == {Launch, Demo, Trip, Thesis, Garden, Mvp, Gym}

ManyLoopMaps ==
    { <<a, b>> : a \in LoopPool, b \in LoopPool } \cup
    { <<a, b, c>> : a \in LoopPool, b \in LoopPool, c \in LoopPool } \cup
    { <<a, b, c, d>> : a \in LoopPool, b \in LoopPool, c \in LoopPool,
                       d \in LoopPool }

\* a dict has every key once
DistinctTopics(loops) ==
    \A i \in 1..Len(loops), j \in 1..Len(loops) :
        loops[i].topic = loops[j].topic => i = j

ScanMaps == OneLoopMaps \cup { m \in ManyLoopMaps : DistinctTopics(m) }

\* the nudge table: empty, or one nudge of an earlier cycle about "mvp"
\* that is pending, approved or sent
EarlierNudge(status) ==
    [create_pending_nudge("u1", "mvp", 5,
                          [kind |-> "generated", mentions |-> {"mvp"}],
                          0 - 40, "job")
       EXCEPT !.status = status]

ScanTables(loops) ==
    IF loops \in OneLoopMaps THEN {<<>>}
    ELSE {<<>>} \cup {<<EarlierNudge(st)>> : st \in {"pending", "approved", "sent"}}

ScanInit ==
    /\ now \in ScanTimes
    /\ \E loops \in ScanMaps :
          /\ users = Single(None, loops)
          /\ nudges \in ScanTables(loops)
    /\ messages = [p \in Phones |-> <<>>]
    /\ llm \in {"names", "fails"}
    /\ disp = [d \in DispSlots |-> IdleDisp]
    /\ send = [s \in SendSlots |-> IdleSend]
    /\ delivered = {}
    /\ probe = NoProbe

Called(fn, out) ==
    [fn |-> fn, hour |-> 0, weight |-> 0, quiet |-> FALSE, time |-> now,
     allowed |-> FALSE, out |-> out]

\* detect_decaying_loops(open_loops, days_threshold=7), called now
CallDetectDecaying(p) ==
    /\ probe' = Called("detect_decaying_loops",
                       detect_decaying_loops(users[p].open_loops,
                                             DaysThreshold, now))
    /\ UNCHANGED <<now, users, messages, nudges, llm, disp, send, delivered>>

\* get_upcoming_events(open_loops, days_ahead=2), called now
CallUpcomingEvents(p) ==
    /\ probe' = Called("get_upcoming_events",
                       get_upcoming_events(users[p].open_loops, DaysAhead, now))
    /\ UNCHANGED <<now, users, messages, nudges, llm, disp, send, delivered>>

\* the candidate list of the user after candidates.sort, built now
CallCandidates(p) ==
    /\ probe' = Called("candidates",
                       SortByWeight(Candidates(p, users[p].open_loops, now)))
    /\ UNCHANGED <<now, users, messages, nudges, llm, disp, send, delivered>>

\* the loop body of process_dispatch_queue for the user, decided now
CallUserBatch(p) ==
    /\ probe' = Called("user_batch",
                       <<UserBatch([phone_number |-> p] @@ users[p], now)>>)
    /\ UNCHANGED <<now, users, messages, nudges, llm, disp, send, delivered>>

\* generate_batched_message on the questions of the user's candidates
CallBatchedMessage(p) ==
    LET c == SortByWeight(Candidates(p, users[p].open_loops, now))
    IN  /\ c # <<>>
        /\ probe' = Called("generate_batched_message",
                           <<generate_batched_message(
                                [i \in 1..Len(c) |-> c[i].question])>>)
        /\ UNCHANGED <<now, users, messages, nudges, llm, disp, send, delivered>>

ScanNext ==
    \/ \E p \in SettingsPhones : CallDetectDecaying(p)
    \/ \E p \in SettingsPhones : CallUpcomingEvents(p)
    \/ \E p \in SettingsPhones : CallCandidates(p)
    \/ \E p \in SettingsPhones : CallUserBatch(p)
    \/ \E p \in SettingsPhones : CallBatchedMessage(p)

ScanSpec == ScanInit /\ [][ScanNext]_vars

(***************************************************************************)
(* The sender under its periodic trigger: a run starts again and again,    *)
(* every delivery call returns, and the Delivery Service does not fail     *)
(* forever.                                                                *)
(***************************************************************************)
SenderFairness ==
    \A s \in SendSlots :
        /\ WF_vars(SendStart(s))
        /\ WF_vars(SendOk(s) \/ SendFailed(s))
        /\ WF_vars(SendFinish(s))
        /\ SF_vars(SendOk(s))

LiveSpec == Init /\ [][Next]_vars /\ SenderFairness

(***************************************************************************)
(* Properties.                                                             *)
(***************************************************************************)
Active(i) == nudges[i].status \in ActiveStatuses

SameTopic(i, j) ==
    /\ nudges[i].phone_number = nudges[j].phone_number
    /\ nudges[i].topic = nudges[j].topic

\* a step of sender s that handled the head of its fetched list
SenderStep(s) ==
    /\ send[s].pc = "send"
    /\ send[s].fetched # <<>>
    /\ send'[s].pc = "send"
    /\ send'[s].fetched = Tail(send[s].fetched)

\* C1: for every (user, topic) at most one nudge has status pending or
\* approved, in every reachable state, also after a cycle in which one loop
\* was selected by two scanners.
C1_AtMostOneActivePerTopic ==
    \A i, j \in 1..Len(nudges) :
        (i < j /\ SameTopic(i, j)) => ~(Active(i) /\ Active(j))

\* C2: two interleaved runs of the dispatch cycle never jointly leave two
\* pending/approved nudges for one (user, topic): no such pair of rows was
\* inserted by two different runs.
C2_OverlappingRunsNoDuplicate ==
    \A i, j \in 1..Len(nudges) :
        (i < j /\ SameTopic(i, j) /\ nudges[i].by # nudges[j].by)
            => ~(Active(i) /\ Active(j))

\* C3: a run that starts after a nudge was created inserts no nudge for that
\* (user, topic) while the earlier nudge is still pending or approved.
C3_SecondRunCreatesNothing ==
    [][\A d \in DispSlots :
         (disp[d].pc = "create" /\ Len(nudges') > Len(nudges)
            /\ disp'[d].pc # "create")
         => \A j \in (Len(nudges) + 1)..Len(nudges') :
              \A i \in 1..disp[d].base :
                 ~(/\ nudges[i].phone_number = nudges'[j].phone_number
                   /\ nudges[i].topic = nudges'[j].topic
                   /\ Active(i))]_vars

\* a second run went through the user list after the first one had made a
\* nudge that is still pending, and inserted nothing
C3_Witness ==
    \E d \in DispSlots :
        /\ disp[d].pc = "users" /\ disp[d].queue = <<>>
        /\ disp[d].base >= 1 /\ disp[d].created = 0
        /\ \E i \in 1..disp[d].base : nudges[i].status = "pending"

\* C4: only the sender hands a nudge to the Delivery Service, and only one it
\* fetched; what it fetches had status approved and a scheduled-send time
\* <= now at the fetch; the rows of a run are fixed at its fetch; the
\* dispatch cycle delivers nothing.
C4_OnlyApprovedAndDueDelivered ==
    [][/\ delivered' # delivered =>
            \E s \in SendSlots :
               /\ SenderStep(s)
               /\ delivered' \ delivered =
                     {[id |-> Head(send[s].fetched),
                       phone_number |-> nudges[Head(send[s].fetched)].phone_number,
                       at |-> now]}
       /\ \A s \in SendSlots :
            (send[s].pc = "idle" /\ send'[s].pc = "send") =>
               \A k \in 1..Len(send'[s].fetched) :
                  /\ nudges[send'[s].fetched[k]].status = "approved"
                  /\ nudges[send'[s].fetched[k]].scheduled_send_time <= now
       /\ \A s \in SendSlots :
            (send[s].pc = "send" /\ send'[s].fetched # send[s].fetched) =>
               send'[s].fetched = Tail(send[s].fetched)
       /\ (\E d \in DispSlots : disp'[d] # disp[d]) => delivered' = delivered
      ]_vars

\* one nudge was delivered while another one, still pending, was not
C4_Witness ==
    /\ delivered # {}
    /\ \E j \in 1..Len(nudges) :
          /\ nudges[j].status = "pending"
          /\ \A x \in delivered : x.id # j

\* C5: no nudge is delivered at an instant inside the recipient's quiet hours.
C5_NoDeliveryInQuietHours ==
    \A x \in delivered : ~is_quiet_hours(users[x.phone_number], x.at)

C7_FailureLeavesApproved ==
    [][\A s \in SendSlots :
         (SenderStep(s) /\ send'[s].success = "false") =>
            LET id == Head(send[s].fetched)
            IN  /\ nudges' = nudges
                /\ nudges[id].sent_at = None
                /\ users' = users
                /\ messages' = messages
                /\ delivered' = delivered
                /\ send'[s].failed = send[s].failed + 1
                /\ send'[s].sent = send[s].sent
                /\ send'[s].pc = "send"
                /\ send'[s].fetched = Tail(send[s].fetched)]_vars

\* in one run a delivery failed and a later one succeeded
C7_Witness ==
    \E s \in SendSlots :
        /\ send[s].pc = "send" /\ send[s].failed >= 1
        /\ send[s].success = "true"
        /\ \E i \in 1..Len(nudges) : nudges[i].status = "approved"

\* C9: no run of the dispatch cycle starts while another one is in progress,
\* and no run of the sender while another one is in progress.
C9_SingleInstance ==
    /\ \A d1, d2 \in DispSlots :
          (disp[d1].pc # "idle" /\ disp[d2].pc # "idle") => d1 = d2
    /\ \A s1, s2 \in SendSlots :
          (send[s1].pc # "idle" /\ send[s2].pc # "idle") => s1 = s2

\* C8: an approved nudge whose scheduled-send time has passed is eventually
\* sent or skipped, and until then every sender run fetches it (no backoff).
C8_ApprovedIsEventuallySent ==
    /\ \A i \in 1..MaxNudges :
          (i <= Len(nudges) /\ Ready(i))
             ~> (i <= Len(nudges) /\ nudges[i].status \in {"sent", "skipped"})
    /\ [][\A s \in SendSlots :
            (send[s].pc = "idle" /\ send'[s].pc = "send") =>
               \A i \in 1..Len(nudges) :
                  Ready(i) => \E k \in 1..Len(send'[s].fetched) :
                                 send'[s].fetched[k] = i]_vars

\* a delivery of a nudge has just failed and the nudge is still approved and
\* due, waiting for the next run
C8_Witness ==
    \E s \in SendSlots :
        /\ send[s].success = "false"
        /\ \E i \in 1..Len(nudges) :
              /\ Ready(i)
              /\ \A k \in 1..Len(send[s].fetched) : send[s].fetched[k] # i

\* C10: any two deliveries to one user are at least the smallest pacing
\* threshold (4 hours) apart (stated for nudges about different topics: the
\* duplicates of one topic are C1's and C2's).
C10_DeliveriesArePaced ==
    \A x, y \in delivered :
        (/\ x.phone_number = y.phone_number
         /\ nudges[x.id].topic # nudges[y.id].topic)
        => (x.at - y.at >= PacingThreshold(5) \/ y.at - x.at >= PacingThreshold(5))

\* a step of run d that takes the user at the head of its list
UserStep(d) ==
    /\ disp[d].pc = "users"
    /\ disp[d].queue # <<>>
    /\ disp'[d] # disp[d]

\* the user of `row` has candidates and the Pacing Gate, asked with the
\* largest weight among them, says no
PacingBlocked(row, t) ==
    LET c == Candidates(row.phone_number, row.open_loops, t)
    IN  /\ c # <<>>
        /\ \E i \in 1..Len(c) :
              /\ \A j \in 1..Len(c) : c[i].weight >= c[j].weight
              /\ ~should_send_based_on_pacing(row.last_interaction_at,
                                              c[i].weight, t)

\* C11: when the Pacing Gate, evaluated with the maximum weight over the
\* user's candidates, returns false, the run plans and creates no nudge for
\* the user, counts the user as skipped exactly once, and moves on.
C11_PacingBlockDefersBatch ==
    [][\A d \in DispSlots :
         (UserStep(d) /\ PacingBlocked(Head(disp[d].queue), now)) =>
            /\ nudges' = nudges
            /\ disp'[d].pc = "users"
            /\ disp'[d].plan = <<>>
            /\ disp'[d].queue = Tail(disp[d].queue)
            /\ disp'[d].skipped = disp[d].skipped + 1
            /\ disp'[d].created = disp[d].created]_vars

\* a run has just skipped a user with candidates because of the pacing gate
C11_Witness ==
    \E d \in DispSlots :
        /\ disp[d].outcome = "pacing"
        /\ disp[d].skipped = 1 /\ disp[d].created = 0
        /\ nudges = <<>>
        /\ PacingBlocked([phone_number |-> "u1"] @@ users["u1"], now)

\* C12: no dispatch cycle creates a nudge for a loop whose status is
\* resolved, whatever its weight, last-updated timestamp or next-event date:
\* no nudge row is about a resolved loop of its user.
C12_ResolvedLoopsNeverNudged ==
    \A i \in 1..Len(nudges) :
        LoopOf(users[nudges[i].phone_number].open_loops,
               nudges[i].topic).status # "resolved"

\* C13: when a stage of one user's processing raises (a store read, the
\* timezone lookup), the user is counted as skipped exactly once, no nudge is
\* planned or created for the user, and the run goes on with the remaining
\* users, whose batches are what they would have been without the failure
\* (a batch is a function of the tables, the clock and the text service).
C13_FaultIsolationPerUser ==
    [][\A d \in DispSlots :
         (UserStep(d) /\ disp'[d].outcome = "error") =>
            /\ disp'[d].skipped = disp[d].skipped + 1
            /\ disp'[d].created = disp[d].created
            /\ nudges' = nudges
            /\ disp'[d].pc = "users"
            /\ disp'[d].plan = <<>>
            /\ disp'[d].queue = Tail(disp[d].queue)
            \* nothing the remaining users' batches are computed from changed
            /\ users' = users /\ messages' = messages /\ now' = now
            /\ llm' = llm]_vars

\* a run skipped its first user on an exception and then created the nudge
\* of its second user
C13_Witness ==
    \E d \in DispSlots :
        /\ disp[d].pc = "users" /\ disp[d].queue = <<>>
        /\ disp[d].skipped = 1 /\ disp[d].created = 1
        /\ Len(nudges) = 1
        /\ nudges[1].phone_number = "u2"
        /\ ~check_ghost_loops("u1", "mvp")
        /\ users["u1"].open_loops = <<Mvp>>

\* a step of run d that finishes the user at the head of its list
UserDone(d) ==
    /\ disp[d].pc \in {"users", "create"}
    /\ disp[d].queue # <<>>
    /\ disp'[d].queue = Tail(disp[d].queue)

\* C14: every user a run finishes adds either exactly one to the skipped
\* count and nothing to the created count, or at least one to the created
\* count and nothing to the skipped count; and the created count grows by
\* the number of nudge rows inserted.
C14_OneTerminalStatePerUser ==
    [][\A d \in DispSlots :
         UserDone(d) =>
            /\ \/ /\ disp'[d].skipped = disp[d].skipped + 1
                  /\ disp'[d].created = disp[d].created
               \/ /\ disp'[d].created >= disp[d].created + 1
                  /\ disp'[d].skipped = disp[d].skipped
            /\ disp'[d].created - disp[d].created
                  = Len(nudges') - Len(nudges)]_vars

\* C15: a user's batch is applied whole or not at all: the insert step of a
\* run persists a nudge for every selected top candidate or for none, also
\* when the write of one candidate fails.
C15_BatchAllOrNothing ==
    [][\A d \in DispSlots :
         (disp[d].pc = "create" /\ disp'[d].pc # "create") =>
            \/ Len(nudges') = Len(nudges)
            \/ Len(nudges') = Len(nudges) + Len(disp[d].plan)]_vars

\* C16: an unresolvable timezone fails safe: the quiet-hours check of such a
\* user reports quiet, no dispatch run plans a nudge for a user whose
\* timezone, as the run read it, is unresolvable, and no nudge is delivered
\* to a user whose timezone is unresolvable at the time of the delivery.
C16_TimezoneFailureFailsSafe ==
    [][/\ \A p \in Phones :
            users[p].timezone = BadTz => is_quiet_hours(users[p], now)
       /\ \A d \in DispSlots :
            (UserStep(d) /\ Head(disp[d].queue).timezone = BadTz)
               => (disp'[d].pc = "users" /\ nudges' = nudges)
       /\ \A x \in delivered' \ delivered :
            users[x.phone_number].timezone # BadTz]_vars

\* the user of `row` is the user of the "Investor Pitch" scenario at time t:
\* exactly one loop, active, stored weight 5, its event on the next local
\* calendar day, last interaction 10 hours ago, no nudge rows, the topic not
\* in the recent messages, and t outside the quiet hours
InvestorScenario(row, t) ==
    /\ Len(row.open_loops) = 1
    /\ row.open_loops[1].status = "active"
    /\ row.open_loops[1].weight = 5
    /\ row.timezone # BadTz
    /\ Parsable(row.open_loops[1].next_event_date)
    /\ (row.open_loops[1].next_event_date + row.timezone) \div 24
          = ((t + row.timezone) \div 24) + 1
    /\ row.last_interaction_at = t - 10
    /\ \A i \in 1..Len(nudges) : nudges[i].phone_number # row.phone_number
    /\ ~check_ghost_loops(row.phone_number, row.open_loops[1].topic)
    /\ ~is_quiet_hours(row, t)

\* C17: for the user of the "Investor Pitch" scenario a dispatch run whose
\* collaborators do not fail plans exactly one nudge, of weight 5, scheduled
\* at last interaction + 4h unless that instant is in quiet hours, and
\* inserts it as one pending row.
C17_InvestorPitchOneNudge ==
    [][\A d \in DispSlots :
         /\ (/\ UserStep(d)
             /\ disp'[d].outcome # "error"
             /\ InvestorScenario(Head(disp[d].queue), now)) =>
               LET row == Head(disp[d].queue)
                   at == row.last_interaction_at + 4
               IN  /\ disp'[d].pc = "create"
                   /\ Len(disp'[d].plan) = 1
                   /\ disp'[d].plan[1].weight = 5
                   /\ ~is_quiet_hours(row, at) => disp'[d].scheduled_time = at
         /\ (/\ disp[d].pc = "create"
             /\ Len(nudges') = Len(nudges) + Len(disp[d].plan)) =>
               \A k \in 1..Len(disp[d].plan) :
                  LET n == nudges'[Len(nudges) + k]
                  IN  /\ n.status = "pending"
                      /\ n.weight = disp[d].plan[k].weight
                      /\ n.scheduled_send_time = disp[d].scheduled_time]_vars

\* the topic occurs in one of the user's 3 most recent messages
MentionedRecently(phone, topic) ==
    \E i \in 1..Len(messages[phone]) :
        /\ i > Len(messages[phone]) - 3
        /\ \E part \in messages[phone][i].text.mentions :
              Lower(part) = Lower(topic)

\* the user of `row` has candidates, every one of them about a topic of the
\* 3 most recent messages, and the pacing gate passes
AllGhosted(row, t) ==
    LET c == Candidates(row.phone_number, row.open_loops, t)
    IN  /\ c # <<>>
        /\ \A i \in 1..Len(c) : MentionedRecently(row.phone_number, c[i].topic)
        /\ ~PacingBlocked(row, t)

\* C18: for a user whose candidates are all mentioned in the 3 most recent
\* messages and for whom the pacing gate passes, the run creates no nudge and
\* adds exactly one to the skipped count.
C18_AllGhostedSkipsUser ==
    [][\A d \in DispSlots :
         (UserStep(d) /\ AllGhosted(Head(disp[d].queue), now)) =>
            /\ nudges' = nudges
            /\ disp'[d].pc = "users"
            /\ disp'[d].plan = <<>>
            /\ disp'[d].queue = Tail(disp[d].queue)
            /\ disp'[d].skipped = disp[d].skipped + 1
            /\ disp'[d].created = disp[d].created]_vars

\* a run has just skipped a user because the only candidate was mentioned in
\* the second most recent of four messages
C18_Witness ==
    \E d \in DispSlots :
        /\ disp[d].outcome = "ghost"
        /\ disp[d].skipped = 1 /\ disp[d].created = 0
        /\ nudges = <<>>
        /\ Len(messages["u1"]) = 4
        /\ AllGhosted([phone_number |-> "u1"] @@ users["u1"], now)

\* C19: for every hour 0..23, with start > end the hour is quiet iff
\* hour >= start or hour < end, otherwise iff start <= hour < end; with the
\* window 22 -> 9 the hours 22 and 23 are quiet and 9 and 10 are not; and
\* is_quiet_hours and is_quiet_hours_at_time agree on the same local hour.
C19_QuietHoursMembership ==
    LET u == users["u1"]
        start == u.quiet_hours_start
        end == u.quiet_hours_end
        h == probe.hour
        member == IF start > end THEN (h >= start \/ h < end)
                                 ELSE (start <= h /\ h < end)
    IN  probe.fn \in {"is_quiet_hours", "is_quiet_hours_at_time"} =>
           /\ probe.quiet = member
           /\ probe.quiet = is_quiet_hours(u, now)
           /\ probe.quiet = is_quiet_hours_at_time(u, h)
           /\ (start = 22 /\ end = 9 /\ h \in {22, 23}) => probe.quiet
           /\ (start = 22 /\ end = 9 /\ h \in {9, 10}) => ~probe.quiet

\* is_quiet_hours_at_time was called for local hour 9 of a user with the
\* window 22 -> 9 and said not quiet
C19_Witness ==
    /\ probe.fn = "is_quiet_hours_at_time"
    /\ users["u1"].quiet_hours_start = 22
    /\ users["u1"].quiet_hours_end = 9
    /\ probe.hour = 9
    /\ ~probe.quiet

\* C20: when the computed send time is in quiet hours, the adjusted send
\* time is the quiet-hours end hour on the local day of the computed time if
\* that instant is not before now, otherwise on the next calendar day,
\* converted back to UTC; so the adjusted send time is never before now.
C20_AdjustedTimeNotInPast ==
    LET u == users["u1"]
        last == IF u.last_interaction_at # None THEN u.last_interaction_at ELSE now
        day == (last + HoursToAdd(probe.weight) + u.timezone) \div 24
        atEnd == day * 24 + u.quiet_hours_end
    IN  (probe.fn = "scheduled_time" /\ probe.quiet) =>
           /\ probe.time + u.timezone
                 = (IF atEnd >= now + u.timezone THEN atEnd ELSE atEnd + 24)
           /\ probe.time >= now

\* C21: the quiet-hours adjustment only moves a send time forward: for a
\* user with a prior interaction the scheduled-send time is never before
\* last interaction + offset (4h/24h/48h), and equals it when that instant
\* is outside quiet hours; a late-evening time of a wrap-around window is
\* not moved back to the quiet-end hour of the same day.
C21_AdjustmentOnlyForward ==
    LET u == users["u1"]
        offset == IF probe.weight >= 5 THEN 4
                  ELSE IF probe.weight >= 3 THEN 24 ELSE 48
        unadjusted == u.last_interaction_at + offset
    IN  (probe.fn = "scheduled_time" /\ u.last_interaction_at # None) =>
           /\ probe.time >= unadjusted
           /\ ~probe.quiet => probe.time = unadjusted

\* C22: the Pacing Gate returns true when there is no prior interaction;
\* otherwise it returns true iff the hours since the last interaction are at
\* least 4 for weight >= 5, 24 for weight 3 or 4, and 48 for weight <= 2.
C22_PacingGateTable ==
    LET last == users["u1"].last_interaction_at
        w == probe.weight
        threshold == CASE w >= 5 -> 4
                       [] w \in {3, 4} -> 24
                       [] w <= 2 -> 48
    IN  probe.fn = "should_send_based_on_pacing" =>
           /\ last = None => probe.allowed
           /\ last # None => (probe.allowed <=> now - last >= threshold)

C22_Witness ==
    /\ probe.fn = "should_send_based_on_pacing"
    /\ probe.weight = 5
    /\ now - users["u1"].last_interaction_at = 4
    /\ probe.allowed

\* C23: for every loop map, neither the Decay Detector nor the Event Scanner
\* returns a loop whose status is not active (decaying, resolved, missing or
\* any other value), whatever its timestamps are.
C23_ScannersOnlyActive ==
    LET loops == users["u1"].open_loops
        status(topic) == LoopOf(loops, topic).status
    IN  /\ probe.fn = "detect_decaying_loops" =>
              \A i \in 1..Len(probe.out) : status(probe.out[i]) = "active"
        /\ probe.fn = "get_upcoming_events" =>
              \A i \in 1..Len(probe.out) : status(probe.out[i].topic) = "active"

C23_Witness ==
    /\ probe.fn = "detect_decaying_loops"
    /\ probe.out = <<>>
    /\ users["u1"].open_loops = <<Loop("mvp", "decaying", 0 - 200, 24, 5)>>

\* C24: decaying loops remain eligible for nudges: a loop with status
\* decaying, of any weight 1..5, that is stale (not updated for 7 days or
\* more) and has no pending or approved nudge is among the candidates of a
\* dispatch cycle; in particular one of weight <= 3 is.
C24_DecayingLoopsSurface ==
    LET loops == users["u1"].open_loops
        topics == {probe.out[i].topic : i \in 1..Len(probe.out)}
        eligible(l) == /\ l.status = "decaying"
                       /\ l.weight \in 1..5
                       /\ Parsable(l.last_updated)
                       /\ (now - l.last_updated) \div 24 >= 7
                       /\ ~check_existing_pending_nudge("u1", l.topic)
    IN  probe.fn = "candidates" =>
           \A i \in 1..Len(loops) : eligible(loops[i]) => loops[i].topic \in topics

\* C25: an active loop with a next-event date is returned by the Event
\* Scanner iff 0 <= days-until <= window, days-until being the event date
\* minus the date of now in whole days: an event dated today has days-until
\* 0 and is included at any time of day, one dated tomorrow has days-until 1.
C25_EventInclusionByDate ==
    LET loops == users["u1"].open_loops
        days_until(l) == (l.next_event_date \div 24) - (now \div 24)
        dated(l) == l.status = "active" /\ Parsable(l.next_event_date)
        entries(l) == {i \in 1..Len(probe.out) : probe.out[i].topic = l.topic}
    IN  probe.fn = "get_upcoming_events" =>
           \A k \in 1..Len(loops) :
              dated(loops[k]) =>
                 /\ entries(loops[k]) # {} <=>
                       (0 <= days_until(loops[k]) /\ days_until(loops[k]) <= DaysAhead)
                 /\ \A i \in entries(loops[k]) :
                       probe.out[i].days_until = days_until(loops[k])

\* C26: the output of the Event Scanner is sorted ascending by days-until
\* for every loop map: no entry with a larger days-until precedes an entry
\* with a smaller one.
C26_EventsSortedAscending ==
    probe.fn = "get_upcoming_events" =>
       \A i \in 1..Len(probe.out), j \in 1..Len(probe.out) :
          i < j => probe.out[i].days_until <= probe.out[j].days_until

C26_Witness ==
    /\ probe.fn = "get_upcoming_events"
    /\ users["u1"].open_loops = <<Trip, Demo, Launch>>
    /\ Len(probe.out) = 3
    /\ probe.out[1].topic = "launch" /\ probe.out[1].days_until = 0
    /\ probe.out[3].topic = "trip" /\ probe.out[3].days_until = 2

\* C27: an event-driven candidate with 0 or 1 day left carries weight 5
\* whatever the loop's stored weight is; the merged candidate list is ordered
\* by non-increasing weight, and candidates of equal weight stand in the
\* order event candidates, decay candidates, pacing-ready candidates.
C27_CandidateRanking ==
    LET loops == users["u1"].open_loops
        out == probe.out
        upcoming == get_upcoming_events(loops, DaysAhead, now)
        A == RuleA("u1", loops, now)
        B == RuleB("u1", loops, now)
        C == RuleC("u1", loops, A \o B, now)
        of(q, w) == SelectSeq(q, LAMBDA c : c.weight = w)
    IN  probe.fn = "candidates" =>
           /\ \A i \in 1..Len(upcoming) :
                 upcoming[i].days_until \in {0, 1} =>
                    \E k \in 1..Len(out) :
                       /\ out[k].topic = upcoming[i].topic
                       /\ out[k].question.kind \in {"today", "tomorrow"}
                       /\ out[k].weight = 5
           /\ \A i \in 1..Len(out), j \in 1..Len(out) :
                 i < j => out[i].weight >= out[j].weight
           /\ Len(out) = Len(A) + Len(B) + Len(C)
           /\ \A w \in 1..5 : of(out, w) = of(A, w) \o of(B, w) \o of(C, w)

C27_Witness ==
    /\ probe.fn = "candidates"
    /\ users["u1"].open_loops = <<Gym, Mvp, Thesis, Launch>>
    /\ Launch.weight = 2
    /\ [i \in 1..Len(probe.out) |-> <<probe.out[i].topic, probe.out[i].weight>>]
          = << <<"launch", 5>>, <<"thesis", 5>>, <<"mvp", 5>>, <<"gym", 4>> >>

\* C28: per user and dispatch cycle at most 3 nudges are planned and
\* created, and they are for the highest-weight candidates that passed the
\* ghost-loop filter: no surviving candidate left without a nudge has a
\* strictly higher weight than one that received a nudge.
C28_TopThreeSurvivors ==
    [][\A d \in DispSlots :
         /\ (UserStep(d) /\ disp'[d].pc = "create") =>
               LET row == Head(disp[d].queue)
                   c == Candidates(row.phone_number, row.open_loops, now)
                   survivors == {c[i] : i \in {k \in 1..Len(c) :
                                    ~MentionedRecently(row.phone_number, c[k].topic)}}
                   plan == disp'[d].plan
                   chosen == {plan[k] : k \in 1..Len(plan)}
               IN  /\ Len(plan) <= 3
                   /\ Len(plan) = 3 \/ Len(plan) = Cardinality(survivors)
                   /\ chosen \subseteq survivors
                   /\ \A x \in survivors \ chosen, y \in chosen :
                         x.weight <= y.weight
         /\ (disp[d].pc = "create" /\ disp'[d].pc # "create") =>
               /\ Len(nudges') <= Len(nudges) + 3
               /\ \A k \in (Len(nudges) + 1)..Len(nudges') :
                     \E i \in 1..Len(disp[d].plan) :
                        /\ nudges'[k].topic = disp[d].plan[i].topic
                        /\ nudges'[k].weight = disp[d].plan[i].weight]_vars

\* the user with five due loops, one of them just talked about, has nudges
\* for the three heaviest of the other four and none for the lightest
C28_Witness ==
    /\ users = Busy
    /\ Len(nudges) = 3
    /\ {<<nudges[k].topic, nudges[k].weight>> : k \in 1..3}
          = {<<"launch", 5>>, <<"mvp", 5>>, <<"gym", 4>>}
    /\ \E d \in DispSlots : disp[d].pc = "users" /\ disp[d].created = 3
    /\ ~MentionedRecently("u1", "garden")

\* C29: before the quiet-hours adjustment the scheduled-send time of a
\* user's batch is last interaction + 4h, 24h or 48h by the weight of the
\* top surviving candidate (>= 5, >= 3, else); all nudges created for one
\* user in one cycle carry that one time, also when their own weights fall
\* in different tiers, and each stores its own candidate's weight.
C29_BatchSharesTopOffset ==
    [][\A d \in DispSlots :
         /\ (/\ UserStep(d) /\ disp'[d].pc = "create"
             /\ Head(disp[d].queue).last_interaction_at # None) =>
               LET row == Head(disp[d].queue)
                   plan == disp'[d].plan
                   top == CHOOSE w \in {plan[k].weight : k \in 1..Len(plan)} :
                             \A k \in 1..Len(plan) : w >= plan[k].weight
                   offset == IF top >= 5 THEN 4 ELSE IF top >= 3 THEN 24 ELSE 48
                   unadjusted == row.last_interaction_at + offset
               IN  ~QuietAt(LocalHour(unadjusted, row.timezone),
                            row.quiet_hours_start, row.quiet_hours_end)
                      => disp'[d].scheduled_time = unadjusted
         /\ (disp[d].pc = "create" /\ disp'[d].pc # "create") =>
               \A k \in (Len(nudges) + 1)..Len(nudges') :
                  /\ nudges'[k].scheduled_send_time = disp[d].scheduled_time
                  /\ \E i \in 1..Len(disp[d].plan) :
                        /\ nudges'[k].topic = disp[d].plan[i].topic
                        /\ nudges'[k].weight = disp[d].plan[i].weight
                        /\ nudges'[k].weight =
                              (IF disp[d].plan[i].question.kind \in {"today", "tomorrow"}
                               THEN 5
                               ELSE LoopOf(Head(disp[d].queue).open_loops,
                                           nudges'[k].topic).weight)]_vars

\* one cycle gave the user's two nudges, of weight 5 and weight 4, the same
\* send time: last interaction + 4h
C29_Witness ==
    /\ users = Single(0 - 10, <<Mvp, Gym>>)
    /\ Len(nudges) = 2
    /\ nudges[1].weight = 5 /\ nudges[2].weight = 4
    /\ nudges[1].scheduled_send_time = users["u1"].last_interaction_at + 4
    /\ nudges[2].scheduled_send_time = nudges[1].scheduled_send_time
    /\ nudges[1].by = nudges[2].by

\* C30: a candidate is suppressed iff its topic occurs, compared without
\* regard to case, in at least one of the user's 3 most recent stored
\* messages, incoming or outgoing; older messages never suppress, and a
\* suppressed candidate gets no nudge in that cycle.
C30_GhostFilterRecentThree ==
    [][\A d \in DispSlots :
         /\ (UserStep(d) /\ disp'[d].outcome \in {"create", "ghost"}) =>
               LET row == Head(disp[d].queue)
                   ms == messages[row.phone_number]
                   recent == {i \in 1..Len(ms) : i > Len(ms) - 3}
                   occurs(topic) ==
                       \E i \in recent : \E part \in ms[i].text.mentions :
                           Lower(part) = Lower(topic)
                   c == Candidates(row.phone_number, row.open_loops, now)
                   free == {i \in 1..Len(c) : ~occurs(c[i].topic)}
                   plan == disp'[d].plan
               IN  /\ disp'[d].outcome = "ghost" <=> free = {}
                   /\ Len(plan) = (IF Cardinality(free) < 3
                                   THEN Cardinality(free) ELSE 3)
                   /\ \A k \in 1..Len(plan) :
                         ~occurs(plan[k].topic) /\ \E i \in free : c[i] = plan[k]
         /\ (disp[d].pc = "create" /\ disp'[d].pc # "create") =>
               \A k \in (Len(nudges) + 1)..Len(nudges') :
                  nudges'[k].topic \in
                     {disp[d].plan[i].topic : i \in 1..Len(disp[d].plan)}]_vars

\* the only candidate, "Visa", was suppressed by an outgoing message three
\* messages back that spells it in lower case
C30_Witness ==
    /\ users = Single(0 - 33, <<Visa>>)
    /\ \E d \in DispSlots : disp[d].outcome = "ghost" /\ disp[d].skipped = 1
    /\ nudges = <<>>
    /\ Len(messages["u1"]) = 3
    /\ messages["u1"][1].direction = "outgoing"
    /\ messages["u1"][1].text.mentions = {"visa"}

\* C31: a topic is in the decaying set iff its loop has status active, a
\* parsable last-updated timestamp and at least 7 whole days elapsed since
\* it; loops with a missing or unparsable last-updated are skipped, and the
\* call leaves the loop map (statuses, timestamps, weights) unchanged.
C31_DecayDetectorExact ==
    [][(probe'.fn = "detect_decaying_loops" /\ probe' # probe) =>
          LET loops == users["u1"].open_loops
              found == {probe'.out[i] : i \in 1..Len(probe'.out)}
              elapsed(l) == (now - l.last_updated) \div 24
              decaying(l) == /\ l.status = "active"
                             /\ l.last_updated \notin {None, Unparsable}
                             /\ elapsed(l) >= 7
          IN  /\ \A k \in 1..Len(loops) :
                    loops[k].topic \in found <=> decaying(loops[k])
              /\ found \subseteq {loops[k].topic : k \in 1..Len(loops)}
              /\ Len(probe'.out) = Cardinality(found)
              /\ users' = users]_vars

\* a loop last updated exactly 7 days before the call is reported
C31_Witness ==
    /\ probe.fn = "detect_decaying_loops"
    /\ now = 0
    /\ users["u1"].open_loops = <<Loop("mvp", "active", 0 - 168, None, 3)>>
    /\ probe.out = <<"mvp">>

\* C32: a loop is a pacing-ready candidate only if its weight is >= 4, the
\* event and decay scanners did not select it in this cycle, it has no
\* pending or approved nudge, and the hours since its last update are >= 48
\* for weight 5 or >= 96 for weight 4; loops of weight <= 3 or with a missing
\* or unparsable last-updated are never pacing-ready candidates.
C32_PacingReadyScanner ==
    LET loops == users["u1"].open_loops
        out == probe.out
        upcoming == get_upcoming_events(loops, DaysAhead, now)
        decaying == detect_decaying_loops(loops, DaysThreshold, now)
        selected == {upcoming[i].topic : i \in 1..Len(upcoming)}
                      \cup {decaying[i] : i \in 1..Len(decaying)}
        awaited(topic) == \E i \in 1..Len(nudges) :
                             /\ nudges[i].phone_number = "u1"
                             /\ nudges[i].topic = topic
                             /\ nudges[i].status \in {"pending", "approved"}
        ready(l) == /\ l.weight \in {4, 5}
                    /\ l.topic \notin selected
                    /\ ~awaited(l.topic)
                    /\ l.last_updated \notin {None, Unparsable}
                    /\ now - l.last_updated >= (IF l.weight = 5 THEN 48 ELSE 96)
        pacing_ready == {out[i].topic : i \in {k \in 1..Len(out) :
                                               out[k].topic \notin selected}}
    IN  probe.fn = "candidates" =>
           \A k \in 1..Len(loops) :
              loops[k].topic \in pacing_ready <=> ready(loops[k])

\* of two pacing-ready loops the one with a pending nudge is left out
C32_Witness ==
    /\ probe.fn = "candidates"
    /\ users["u1"].open_loops = <<Mvp, Gym>>
    /\ nudges = <<EarlierNudge("pending")>>
    /\ Len(probe.out) = 1
    /\ probe.out[1].topic = "gym" /\ probe.out[1].weight = 4

\* C33: a failure of the Text Generation Service never aborts processing: a
\* candidate whose question could not be generated carries the fallback
\* question and is still gated, planned and scheduled in the same cycle;
\* batching several questions then gives the raw questions joined; batching
\* a single question returns it unchanged without calling the service.
C33_TextServiceFailureFallsBack ==
    LET loops == users["u1"].open_loops
        c == Candidates("u1", loops, now)
        b == probe.out[1]
        questions == [i \in 1..Len(c) |-> SortByWeight(c)[i].question]
    IN  /\ (probe.fn = "user_batch" /\ llm = "fails" /\ c # <<>>) =>
              /\ b.outcome = "create"
              /\ Len(b.top) = (IF Len(c) < 3 THEN Len(c) ELSE 3)
              /\ b.scheduled_time # None
              /\ \A k \in 1..Len(b.top) :
                    /\ b.top[k].question.kind \in {"today", "tomorrow", "fallback"}
                    /\ b.top[k].topic \in b.top[k].question.mentions
        /\ (probe.fn = "generate_batched_message" /\ Len(c) = 1) =>
              /\ b.message = c[1].question
              /\ ~b.service_called
        /\ (probe.fn = "generate_batched_message" /\ Len(c) > 1
               /\ llm = "fails") =>
              /\ b.message.kind = "joined"
              /\ b.message.parts = questions

\* with the service down, two stale loops are planned with the fallback
\* question
C33_Witness ==
    /\ llm = "fails"
    /\ probe.fn = "user_batch"
    /\ users["u1"].open_loops = <<Garden, Thesis>>
    /\ probe.out[1].outcome = "create"
    /\ Len(probe.out[1].top) = 2
    /\ probe.out[1].top[1].question.kind = "fallback"
    /\ probe.out[1].top[2].question.kind = "fallback"

C35_DispatchOnlyInserts ==
    [][(disp' # disp) =>
          /\ users' = users
          /\ messages' = messages
          /\ Len(nudges') >= Len(nudges)
          /\ \A i \in 1..Len(nudges) : nudges'[i] = nudges[i]
          /\ \A k \in (Len(nudges) + 1)..Len(nudges') :
                nudges'[k].status = "pending"]_vars

\* a cycle added a pending nudge next to a nudge of an earlier cycle that
\* was approved in between
C35_Witness ==
    /\ users = Single(0 - 10, <<Mvp, Gym>>)
    /\ messages["u1"] = <<>>
    /\ Len(nudges) = 2
    /\ nudges[1].topic = "gym" /\ nudges[1].status = "approved"
    /\ nudges[2].topic = "mvp" /\ nudges[2].status = "pending"
    /\ \E d \in DispSlots : disp[d].pc = "users" /\ disp[d].created = 1

\* C36: a nudge that was set to skipped is never delivered and never becomes
\* sent afterwards, also when the skip happens while a sender run that
\* fetched the nudge as approved is still in progress.
C36_SkippedStaysSkipped ==
    [][\A i \in 1..Len(nudges) :
         nudges[i].status = "skipped" =>
            /\ nudges'[i].status = "skipped"
            /\ \A x \in delivered' \ delivered : x.id # i]_vars

\* C37: each nudge is successfully delivered at most once: whenever the
\* Delivery Service succeeds for a nudge, no delivery of that nudge happened
\* before, and the nudge is marked sent and counted as sent in the same run,
\* also when storing the outgoing message or refreshing the user's last
\* interaction raises after the delivery.
C37_DeliveredOnceAndMarked ==
    [][\A s \in SendSlots :
         (/\ send[s].pc = "send" /\ send[s].fetched # <<>>
          /\ send'[s].fetched = Tail(send[s].fetched)
          /\ send'[s].success = "true") =>
            LET id == Head(send[s].fetched)
            IN  /\ \A x \in delivered : x.id # id
                /\ nudges'[id].status = "sent"
                /\ send'[s].sent = send[s].sent + 1]_vars

\* C38: the pacing tier that admits a user's batch equals the tier that
\* schedules it: when nudges are planned for a user with a prior
\* interaction, the maximum weight over all candidates (used by the Pacing
\* Gate) and the weight of the top candidate after ghost filtering (used
\* for the offset) are in the same 4h/24h/48h tier, so the send time before
\* the quiet-hours adjustment is not later than the moment of the cycle.
C38_GateTierIsScheduleTier ==
    [][\A d \in DispSlots :
         (/\ UserStep(d) /\ disp'[d].pc = "create"
          /\ Head(disp[d].queue).last_interaction_at # None) =>
            LET row == Head(disp[d].queue)
                c == Candidates(row.phone_number, row.open_loops, now)
                plan == disp'[d].plan
                gate == CHOOSE w \in {c[i].weight : i \in 1..Len(c)} :
                           \A i \in 1..Len(c) : w >= c[i].weight
                top == CHOOSE w \in {plan[k].weight : k \in 1..Len(plan)} :
                          \A k \in 1..Len(plan) : w >= plan[k].weight
                tier(w) == IF w >= 5 THEN 4 ELSE IF w >= 3 THEN 24 ELSE 48
            IN  /\ tier(gate) = tier(top)
                /\ row.last_interaction_at + tier(top) <= now]_vars

\* C39: a dispatch cycle creates nudges only for users whose onboarding step
\* is 99 when the cycle reads the user list: the list holds exactly those
\* users, rows are inserted and counts are raised only for the listed user
\* the run is at, and no nudge belongs to a user still in onboarding.
C39_OnlyOnboardedUsers ==
    [][\A d \in DispSlots :
         /\ (disp[d].pc = "idle" /\ disp'[d].pc = "users") =>
               \A p \in Phones :
                  (\E k \in 1..Len(disp'[d].queue) :
                      disp'[d].queue[k].phone_number = p)
                    <=> users[p].onboarding_step = 99
         /\ (/\ disp[d].pc # "idle" /\ disp'[d].pc # "idle"
             /\ \/ disp'[d].created # disp[d].created
                \/ disp'[d].skipped # disp[d].skipped
                \/ Len(nudges') > Len(nudges)) =>
               /\ disp[d].queue # <<>>
               /\ disp'[d].queue = Tail(disp[d].queue)
               /\ Head(disp[d].queue).onboarding_step = 99
               /\ \A k \in (Len(nudges) + 1)..Len(nudges') :
                     nudges'[k].phone_number = Head(disp[d].queue).phone_number
         /\ \A k \in 1..Len(nudges) :
               users[nudges[k].phone_number].onboarding_step = 99]_vars

\* a run went through its list while u2, with a due loop, was still in
\* onboarding: one nudge for u1, nothing created or skipped for u2
C39_Witness ==
    /\ users = Onboarding
    /\ \E d \in DispSlots :
          /\ disp[d].pc = "users" /\ disp[d].queue = <<>>
          /\ disp[d].created = 1 /\ disp[d].skipped = 0
    /\ Len(nudges) = 1
    /\ nudges[1].phone_number = "u1"

====
